---- MODULE Spec2Model ----
(***************************************************************************)
(* Crypto-Buyer (src/main.py): the order execution and fund-routing loop   *)
(* of main(), with the helpers it calls (read_screener, fetch_product_     *)
(* rules, ensure_usd_liquidity_for, place_buy, poll_fills_sum,             *)
(* upsert_cost, append_logs), and the sweep that precedes the loop          *)
(* (resolve_portfolio_uuid, sweep_usd_usdc_into, _move_portfolio_funds).   *)
(*                                                                         *)
(* Two specifications.  Spec explores the runs with AUTO_SWEEP_FUNDS off,  *)
(* over every configuration of the loop.  SweepSpec explores the runs with *)
(* AUTO_SWEEP_FUNDS on, over the portfolios, their balances and the target *)
(* of the sweep, with the loop's configuration held at one value.  In both *)
(* the portfolio whose balances main reads is the API key's own portfolio, *)
(* the one the orders and converts act on.                                 *)
(*                                                                         *)
(* Money.  The program computes with binary floats; the model computes     *)
(* with exact decimals.  Every amount is an integer count of a unit that   *)
(* is 1/2^MaxProducts of a mill (0.001 USD).  PERCENT_PER_TRADE is 50 or   *)
(* 150, so the planned notional is a multiple of half the remaining        *)
(* budget, and at most one factor of two is used up per instrument: every  *)
(* amount of the run is represented exactly (PlannedExact).  The one place *)
(* where the binary representation decides a result, the direction in      *)
(* which "%.2f" rounds a value lying exactly between two cents, is a       *)
(* nondeterministic choice.                                                *)
(*                                                                         *)
(* History.  orders, ledgerOps and polled record the calls the run has     *)
(* made (market_order_buy, the writes of upsert_cost, the results of       *)
(* poll_fills_sum); budget0, budgetBase, spentAll and spentSince record    *)
(* the balances read into remaining_usd and what was spent after them: the *)
(* quote value a poll confirmed, or the planned notional when it confirmed *)
(* none.  lastExc tells what the step just taken raised: nothing, an       *)
(* exception that reached the handler of the instrument loop (with or      *)
(* without a marker of venue congestion in its message), or one that       *)
(* poll_fills_sum swallowed.  moves records the move_portfolio_funds calls *)
(* sent to the venue, and movedSinceRead the last action that moved funds  *)
(* since a balance was read into remaining_usd.  The program reads none of *)
(* them.  converts and buyCalls record the convert requests and the        *)
(* market_order_buy calls sent to the venue, accepted or not.              *)
(***************************************************************************)
EXTENDS Integers, Sequences, FiniteSets, TLC

\* Rows of the screener tab that are read (bounds the length of a run).
MaxProducts == 2

\* POLL_MAX_TRIES as configured for the runs explored (default 25).
POLL_TRIES == 2

RECURSIVE Pow2(_)
Pow2(n) == IF n = 0 THEN 1 ELSE 2 * Pow2(n - 1)

Mill == Pow2(MaxProducts)
Cent == 10 * Mill
Dime == 100 * Mill
Dollar == 1000 * Mill

Max(a, b) == IF a >= b THEN a ELSE b
Min(a, b) == IF a <= b THEN a ELSE b

(***************************************************************************)
(* Configuration read from the environment (src/main.py:16-36).            *)
(***************************************************************************)
MinNotionalChoices == {Dollar, Dollar + 25 * Cent}
\* PERCENT_PER_TRADE; the program accepts a share above 100, with which it
\* plans more than the budget holds.
PctChoices == {50, 150}

(***************************************************************************)
(* The screener tab: the cells of the Product column below the header.     *)
(***************************************************************************)
RawCells == {"BTC-USD", " btc-usd ", "ETH-USD", "ETH-EUR", ""}

\* (r[idx] or "").strip().upper()
NormCell(c) ==
    CASE c = " btc-usd " -> "BTC-USD"
      [] OTHER -> c

Pids == {NormCell(c) : c \in RawCells} \ {""}

\* pid.split("-")[-1] if "-" in pid else ""
QuoteOf(pid) ==
    CASE pid = "BTC-USD" -> "USD"
      [] pid = "ETH-USD" -> "USD"
      [] pid = "ETH-EUR" -> "EUR"
      [] OTHER -> ""

InSeq(s, x) == \E i \in 1..Len(s) : s[i] = x

RECURSIVE ScreenerScan(_, _)
ScreenerScan(cells, out) ==
    IF cells = << >> THEN out
    ELSE LET pid == NormCell(Head(cells))
         IN  IF pid # "" /\ ~InSeq(out, pid)
             THEN ScreenerScan(Tail(cells), Append(out, pid))
             ELSE ScreenerScan(Tail(cells), out)

\* Mutant of read_screener: ids already seen are kept.
read_screener_KeepsDuplicates(cells) ==
    SelectSeq([i \in 1..Len(cells) |-> NormCell(cells[i])], LAMBDA c : c # "")

read_screener(cells) == ScreenerScan(cells, << >>)

RawScreens == UNION {[1..n -> RawCells] : n \in 0..MaxProducts}

(***************************************************************************)
(* Venue data.                                                             *)
(***************************************************************************)
\* quote_increment values the venue returns, in units
QuoteIncChoices == {Mill, Cent, 5 * Cent, 5 * Dollar}
MinQuoteChoices == {Dollar, Dollar + 25 * Cent}
NoRules == [quote_inc |-> Cent, min_quote |-> Dollar]

UsdChoices == {505 * Mill, 2 * Dollar + 56 * Cent, 4 * Dollar + 956 * Mill}
UsdcChoices == {0, Dollar}
FeeChoices == {0, 6 * Mill}

(***************************************************************************)
(* Portfolios (src/main.py:207-261).                                       *)
(***************************************************************************)
\* Python's None (no portfolio configured: the API key's default).
None == "None"

\* The portfolio the API key belongs to: get_accounts() without a portfolio
\* reads it, and orders and converts act on it.
KeyPortfolio == "P1"

PortName(id) ==
    CASE id = "P1" -> "Default"
      [] id = "P2" -> "Trading"
      [] OTHER -> ""

\* name.strip().lower()
NameKey(n) ==
    CASE n = "Default" -> "default"
      [] n = " default " -> "default"
      [] n = "Trading" -> "trading"
      [] OTHER -> n

\* What list_portfolios returns: the ids, in the venue's order.
PortListChoices == {<<"P1">>, <<"P2", "P1">>}

\* PORTFOLIO_ID and PORTFOLIO_NAME as configured.
PortfolioConfigs ==
    {[id |-> "", name |-> ""], [id |-> "P1", name |-> ""],
     [id |-> "", name |-> " default "]}

\* resolve_portfolio_uuid: the explicit id, else the first portfolio whose
\* name matches, else None.
resolve_portfolio_uuid(id, name, plist) ==
    IF id # "" THEN id
    ELSE IF name # "" /\ \E i \in 1..Len(plist) :
                            NameKey(PortName(plist[i])) = NameKey(name)
         THEN plist[CHOOSE i \in 1..Len(plist) :
                      /\ NameKey(PortName(plist[i])) = NameKey(name)
                      /\ \A j \in 1..(i - 1) :
                           NameKey(PortName(plist[j])) # NameKey(name)]
         ELSE None

\* The USD and USDC balances of the portfolio that is not the key's own.
OtherBalChoices ==
    {[USD |-> 2 * Dollar, USDC |-> 50 * Cent], [USD |-> 0, USDC |-> Dollar]}

\* SWEEP_MIN_USD (default 1.0)
SWEEP_MIN == Dollar

\* The accounts of a portfolio, in the order the venue returns them.
Ccys == <<"USD", "USDC">>

(***************************************************************************)
(* Numeric helpers.                                                        *)
(***************************************************************************)
\* The power of ten of the last digit of str(step): Decimal(str(step)) has
\* that exponent.  A float step is printed with at least one decimal
\* (5.0 -> "5.0"), so the exponent is never above -1.
StepQuantum(step) ==
    IF step % Dime = 0 THEN Dime
    ELSE IF step % Cent = 0 THEN Cent
    ELSE Mill

\* float(Decimal(str(x)).quantize(Decimal(str(step)))) under ROUND_DOWN
quantize_down(x, step) == x - (x % StepQuantum(step))

\* f"{x:.2f}": the nearest cent; tieUp is the direction the binary value of
\* x falls when x is exactly half way.
Fmt2(x, tieUp) ==
    LET r == x % Cent
    IN  IF 2 * r < Cent THEN x - r
        ELSE IF 2 * r > Cent THEN x - r + Cent
        ELSE IF tieUp THEN x - r + Cent ELSE x - r

\* f"{avg:.6f}" of avg = cost / qty, in millionths of a dollar: the nearest
\* millionth; tieUp is the direction taken when the quotient is half way.
Fmt6(cost, qty, tieUp) ==
    LET num == cost * 1000
        den == Mill * qty
        q == num \div den
        r == num % den
    IN  IF 2 * r < den THEN q
        ELSE IF 2 * r > den THEN q + 1
        ELSE IF tieUp THEN q + 1 ELSE q

VARIABLES
    DRY_RUN, ENABLE_COST_SHEET, AUTO_CONVERT, MIN_NOTIONAL, PCT_PER_TRADE,
    products, idx, pc,
    remaining_usd, planned, rules, min_required,
    venueUsd, venueUsdc, venueFill,
    orders, tries, fills, fill_usd,
    logs, ws_log, ws_cost,
    ledgerOps, polled, budgetBase, spentSince, budget0, spentAll,
    lastExc,
    AUTO_SWEEP_FUNDS, PORTFOLIO_ID, PORTFOLIO_NAME, ports, target, otherBal,
    sp, sa, moves, movedSinceRead,
    converts, buyCalls

cfgVars == <<DRY_RUN, ENABLE_COST_SHEET, AUTO_CONVERT, MIN_NOTIONAL,
             PCT_PER_TRADE, products>>
venueVars == <<venueUsd, venueUsdc, orders>>
localVars == <<planned, rules, min_required, tries, fills, fill_usd, venueFill>>
storeVars == <<ws_log, ws_cost, ledgerOps>>
budgetVars == <<remaining_usd, budgetBase, spentSince, budget0, spentAll>>
sweepVars == <<AUTO_SWEEP_FUNDS, PORTFOLIO_ID, PORTFOLIO_NAME, ports, target,
               otherBal, sp, sa, moves>>
callVars == <<converts, buyCalls>>
vars == <<cfgVars, idx, pc, venueVars, localVars, logs, storeVars,
          polled, budgetVars, lastExc, sweepVars, movedSinceRead, callVars>>

NoFills == [base_qty |-> 0, fill_usd |-> 0]
NoVenueFill == [base_qty |-> 0, quote_value |-> 0, fee |-> 0]

LogRow(action, pid, status) == [action |-> action, product |-> pid, status |-> status]

\* The cost tab as it may stand when the run starts.
LedgerChoices ==
    { << >>,
      << [product |-> "BTC-USD", qty |-> 2, cost |-> 3 * Dollar,
          avg |-> 1500000] >> }

\* What holds when main starts, whatever the configuration.
InitCommon ==
    /\ idx = 1
    /\ pc = "start"
    /\ remaining_usd = 0
    /\ planned = 0
    /\ rules = NoRules
    /\ min_required = 0
    /\ venueUsd \in UsdChoices
    /\ venueUsdc \in UsdcChoices
    /\ venueFill = NoVenueFill
    /\ orders = << >>
    /\ tries = 0
    /\ fills = NoFills
    /\ fill_usd = 0
    /\ logs = << >>
    /\ ws_log = << >>
    /\ ledgerOps = << >>
    /\ polled = << >>
    /\ budgetBase = 0
    /\ spentSince = 0
    /\ budget0 = 0
    /\ spentAll = 0
    /\ lastExc = "none"
    /\ sp = 1
    /\ sa = 1
    /\ moves = << >>
    /\ movedSinceRead = "none"
    /\ converts = << >>
    /\ buyCalls = << >>

\* AUTO_SWEEP_FUNDS off, no portfolio configured.
Init ==
    /\ DRY_RUN \in BOOLEAN
    /\ ENABLE_COST_SHEET \in BOOLEAN
    /\ AUTO_CONVERT \in BOOLEAN
    /\ MIN_NOTIONAL \in MinNotionalChoices
    /\ PCT_PER_TRADE \in PctChoices
    /\ \E raw \in RawScreens : products = read_screener(raw)
    /\ ws_cost \in LedgerChoices
    /\ AUTO_SWEEP_FUNDS = FALSE
    /\ PORTFOLIO_ID = ""
    /\ PORTFOLIO_NAME = ""
    /\ ports = <<KeyPortfolio>>
    /\ target = None
    /\ otherBal = [USD |-> 0, USDC |-> 0]
    /\ InitCommon

\* The screener tabs of the runs with the sweep on.
SweepScreens == {<<"BTC-USD">>, <<" btc-usd ", "ETH-USD">>}

\* AUTO_SWEEP_FUNDS on (the default), the cost sheet and the convert on;
\* line 497 has resolved the target.
SweepInit ==
    /\ DRY_RUN \in BOOLEAN
    /\ ENABLE_COST_SHEET = TRUE
    /\ AUTO_CONVERT = TRUE
    /\ MIN_NOTIONAL = Dollar
    /\ PCT_PER_TRADE = 50
    /\ \E raw \in SweepScreens : products = read_screener(raw)
    /\ ws_cost = << >>
    /\ AUTO_SWEEP_FUNDS = TRUE
    /\ \E c \in PortfolioConfigs :
         /\ PORTFOLIO_ID = c.id
         /\ PORTFOLIO_NAME = c.name
    /\ ports \in PortListChoices
    /\ target = resolve_portfolio_uuid(PORTFOLIO_ID, PORTFOLIO_NAME, ports)
    /\ otherBal \in OtherBalChoices
    /\ InitCommon

(***************************************************************************)
(* main(): before the loop (src/main.py:489-507).                          *)
(***************************************************************************)
pid == products[idx]

\* planned = remaining_usd * (PCT_PER_TRADE / 100.0)
PlannedOf(rem) == (rem * PCT_PER_TRADE) \div 100

\* Mutant of MinRequired: the venue's minimum is left out.
MinRequired_NotionalOnly(r) == MIN_NOTIONAL

\* min_required = max(MIN_NOTIONAL, min_quote)
MinRequired(r) == Max(MIN_NOTIONAL, r.min_quote)

\* The loop moves to the next instrument, or leaves the loop.  The locals of
\* the iteration that ends (planned, the rules, min_required, the poll's
\* result, and the venue's record of the order that was polled) are all
\* assigned again before they are read, so they are cleared here.
Advance ==
    /\ idx' = idx + 1
    /\ pc' = IF idx + 1 > Len(products) THEN "flush" ELSE "plan"
    /\ planned' = 0
    /\ rules' = NoRules
    /\ min_required' = 0
    /\ tries' = 0
    /\ fills' = NoFills
    /\ fill_usd' = 0
    /\ venueFill' = NoVenueFill

\* Exceptions a venue or store call raises inside the loop: the message
\* carries a marker of venue congestion (rate limit, timeout, temporarily
\* unavailable, 5xx), or it does not.
ExcKinds == {"transient", "other"}

\* Mutant of Caught: the exception is logged and then ends the run.
Caught_AbortsRun(kind) ==
    /\ logs' = Append(logs, LogRow("CRYPTO-BUY-ERROR", pid, "ERROR"))
    /\ lastExc' = kind
    /\ pc' = "fatal"
    /\ UNCHANGED <<idx, localVars>>

\* except Exception as e (line 555): one CRYPTO-BUY-ERROR row, then the next
\* instrument, whatever the exception is.
Caught(kind) ==
    /\ logs' = Append(logs, LogRow("CRYPTO-BUY-ERROR", pid, "ERROR"))
    /\ lastExc' = kind
    /\ Advance

\* usd_usdc_available at line 503 (and 521): the USD balance just read
\* becomes the budget.
BalancesRead ==
    /\ remaining_usd' = venueUsd
    /\ budgetBase' = venueUsd
    /\ movedSinceRead' = "none"

\* The screener is read; with no products main returns at once.  Otherwise,
\* with AUTO_SWEEP_FUNDS off, sweep_usd_usdc_into returns at once, the
\* balances are read and remaining_usd starts at the USD balance.
Start ==
    /\ pc = "start"
    /\ lastExc' = "none"
    /\ IF products = << >>
       THEN /\ pc' = "done"
            /\ UNCHANGED <<budgetVars, movedSinceRead>>
       ELSE /\ ~AUTO_SWEEP_FUNDS
            /\ pc' = "plan"
            /\ BalancesRead
            /\ budget0' = venueUsd
            /\ UNCHANGED <<spentSince, spentAll>>
    /\ UNCHANGED <<cfgVars, idx, venueVars, localVars, logs, storeVars,
                   polled, sweepVars,
                   callVars>>

\* A venue or store call made before the loop raises (the sheets, the
\* balance reads of lines 497 and 503): the exception leaves main and
\* reaches the handler at the bottom of the file.
StartFails ==
    /\ \/ pc = "start"
       \/ pc = "sweep" /\ sp > Len(ports)
    /\ products # << >>
    /\ lastExc' = "none"
    /\ pc' = "fatal"
    /\ UNCHANGED <<cfgVars, idx, venueVars, localVars, logs, storeVars,
                   polled, budgetVars, sweepVars, movedSinceRead,
                   callVars>>

(***************************************************************************)
(* sweep_usd_usdc_into(portfolio_uuid, logs), src/main.py:315-346.         *)
(***************************************************************************)
\* Line 327: the portfolio src is passed over as the target itself.
SelfSweepSkipped(src, tgt) ==
    src = (IF tgt # None THEN tgt ELSE src) /\ tgt # None

\* target_portfolio_id or src (line 342)
MoveTarget(src, tgt) == IF tgt # None THEN tgt ELSE src

\* The available balance of portfolio p in ccy.
Available(p, ccy) ==
    IF p = KeyPortfolio
    THEN IF ccy = "USD" THEN venueUsd ELSE venueUsdc
    ELSE otherBal[ccy]

SweepStatus(ok) == IF DRY_RUN THEN "dry-run" ELSE IF ok THEN "submitted" ELSE "error"

\* The sweep begins: list_portfolios has returned ports.
SweepStart ==
    /\ pc = "start"
    /\ products # << >>
    /\ AUTO_SWEEP_FUNDS
    /\ pc' = "sweep"
    /\ lastExc' = "none"
    /\ UNCHANGED <<cfgVars, idx, venueVars, localVars, logs, storeVars,
                   polled, budgetVars, sweepVars, movedSinceRead,
                   callVars>>

\* list_portfolios raises inside the sweep: it returns, nothing is swept.
SweepListFails ==
    /\ pc = "start"
    /\ products # << >>
    /\ AUTO_SWEEP_FUNDS
    /\ pc' = "sweep"
    /\ sp' = Len(ports) + 1
    /\ lastExc' = "swallowed"
    /\ UNCHANGED <<cfgVars, idx, venueVars, localVars, logs, storeVars,
                   polled, budgetVars, AUTO_SWEEP_FUNDS, PORTFOLIO_ID,
                   PORTFOLIO_NAME, ports, target, otherBal, sa, moves,
                   movedSinceRead,
                   callVars>>

\* Lines 327-329: the target itself is passed over.
SweepSkipSelf ==
    /\ pc = "sweep"
    /\ sp <= Len(ports)
    /\ sa = 1
    /\ SelfSweepSkipped(ports[sp], target)
    /\ sp' = sp + 1
    /\ lastExc' = "none"
    /\ UNCHANGED <<cfgVars, idx, pc, venueVars, localVars, logs, storeVars,
                   polled, budgetVars, AUTO_SWEEP_FUNDS, PORTFOLIO_ID,
                   PORTFOLIO_NAME, ports, target, otherBal, sa, moves,
                   movedSinceRead,
                   callVars>>

\* Lines 331-335: accounts_for_portfolio(src) raises, accts = [].
SweepAccountsFail ==
    /\ pc = "sweep"
    /\ sp <= Len(ports)
    /\ sa = 1
    /\ ~SelfSweepSkipped(ports[sp], target)
    /\ sp' = sp + 1
    /\ lastExc' = "swallowed"
    /\ UNCHANGED <<cfgVars, idx, pc, venueVars, localVars, logs, storeVars,
                   polled, budgetVars, AUTO_SWEEP_FUNDS, PORTFOLIO_ID,
                   PORTFOLIO_NAME, ports, target, otherBal, sa, moves,
                   movedSinceRead,
                   callVars>>

\* What the venue does with move_portfolio_funds(src, tgt, ccy, amount): it
\* raises, or accepts; funds moved from the other portfolio arrive in the
\* key's own, and a move of a portfolio into itself changes no balance.
MoveAtVenue(src, tgt, ccy, amount, ok) ==
    IF ok /\ src # tgt /\ src # KeyPortfolio /\ tgt = KeyPortfolio
    THEN /\ otherBal' = [otherBal EXCEPT ![ccy] = @ - Min(@, amount)]
         /\ IF ccy = "USD"
            THEN /\ venueUsd' = venueUsd + Min(otherBal[ccy], amount)
                 /\ UNCHANGED venueUsdc
            ELSE /\ venueUsdc' = venueUsdc + Min(otherBal[ccy], amount)
                 /\ UNCHANGED venueUsd
         /\ movedSinceRead' = "sweep"
    ELSE UNCHANGED <<otherBal, venueUsd, venueUsdc, movedSinceRead>>

\* Lines 336-346, one account of portfolio ports[sp]: a balance of at least
\* SWEEP_MIN is moved with _move_portfolio_funds (no call in a dry run) and
\* a CRYPTO-SWEEP row is logged.
SweepAccount ==
    /\ pc = "sweep"
    /\ sp <= Len(ports)
    /\ ~SelfSweepSkipped(ports[sp], target)
    /\ LET src == ports[sp]
           ccy == Ccys[sa]
           avail == Available(src, ccy)
           tgt == MoveTarget(src, target)
       IN  IF avail >= SWEEP_MIN
           THEN \E ok \in BOOLEAN, tieUp \in BOOLEAN :
                  /\ IF DRY_RUN
                     THEN /\ ok = TRUE
                          /\ UNCHANGED <<otherBal, venueUsd, venueUsdc, moves,
                                         movedSinceRead>>
                     ELSE /\ moves' = Append(moves,
                                [source |-> src, target |-> tgt,
                                 currency |-> ccy,
                                 amount |-> Fmt2(avail, tieUp)])
                          /\ MoveAtVenue(src, tgt, ccy, Fmt2(avail, tieUp), ok)
                  /\ logs' = Append(logs, LogRow("CRYPTO-SWEEP", "", SweepStatus(ok)))
           ELSE UNCHANGED <<otherBal, venueUsd, venueUsdc, moves,
                            movedSinceRead, logs>>
    /\ IF sa < Len(Ccys)
       THEN sa' = sa + 1 /\ UNCHANGED sp
       ELSE sa' = 1 /\ sp' = sp + 1
    /\ lastExc' = "none"
    /\ UNCHANGED <<cfgVars, idx, pc, orders, localVars, storeVars, polled,
                   budgetVars, AUTO_SWEEP_FUNDS, PORTFOLIO_ID, PORTFOLIO_NAME,
                   ports, target,
                   callVars>>

\* Lines 503-507 after the sweep: the balances are read and remaining_usd
\* starts at the USD balance.
SweepDone ==
    /\ pc = "sweep"
    /\ sp > Len(ports)
    /\ pc' = "plan"
    /\ BalancesRead
    /\ budget0' = venueUsd
    /\ lastExc' = "none"
    /\ UNCHANGED <<cfgVars, idx, venueVars, localVars, logs, storeVars,
                   polled, spentSince, spentAll, sweepVars,
                   callVars>>

(***************************************************************************)
(* main(): one instrument (src/main.py:508-558).                           *)
(***************************************************************************)
\* Lines 511-518: the planned notional and the product's minima.  Of the
\* rules read at line 514 main uses min_quote alone; the product's
\* quote_inc is drawn where place_buy reads the rules again.
Plan ==
    /\ pc = "plan"
    /\ lastExc' = "none"
    /\ planned' = PlannedOf(remaining_usd)
    /\ \E m \in MinQuoteChoices :
         LET r == [NoRules EXCEPT !.min_quote = m]
         IN  /\ rules' = r
             /\ min_required' = MinRequired(r)
             /\ pc' = IF planned' < MinRequired(r) /\ AUTO_CONVERT
                      THEN "liquidity" ELSE "check"
    /\ UNCHANGED <<cfgVars, idx, venueVars, tries, fills, fill_usd, venueFill,
                   logs, storeVars, polled, budgetVars,
                   sweepVars, movedSinceRead,
                   callVars>>

\* fetch_product_rules raises at line 514.
PlanFails ==
    /\ pc = "plan"
    /\ \E kind \in ExcKinds : Caught(kind)
    /\ UNCHANGED <<cfgVars, venueVars, storeVars, polled, budgetVars,
                   sweepVars, movedSinceRead,
                   callVars>>

\* _convert: what the venue does with a convert of amount (two decimals).
\* It raises (both call shapes), or accepts; an accepted convert shows in
\* the balances at once or not yet.
ConvertAtVenue(amount, ok) ==
    \/ /\ ok = FALSE
       /\ UNCHANGED <<venueUsd, venueUsdc>>
    \/ /\ ok = TRUE
       /\ amount > 0
       /\ amount <= venueUsdc
       /\ \/ /\ venueUsd' = venueUsd + amount
             /\ venueUsdc' = venueUsdc - amount
          \/ UNCHANGED <<venueUsd, venueUsdc>>

ConvertStatus(ok) == IF DRY_RUN THEN "dry-run" ELSE IF ok THEN "submitted" ELSE "error"

\* Mutant of Shortfall: the USD balance is not taken off.
Shortfall_IgnoresBalance(need_usd, usd) == Max(0, need_usd)

\* shortfall = max(0.0, need_usd - usd), line 380
Shortfall(need_usd, usd) == Max(0, need_usd - usd)

\* to_convert = min(usdc, shortfall), line 383
ToConvert(usdc, shortfall) == Min(usdc, shortfall)

\* Mutant of ConvertIsSent: _convert has no dry-run guard.
ConvertIsSent_Always == TRUE

\* _convert: if DRY_RUN it returns True before any venue call (lines
\* 350-352).
ConvertIsSent == ~DRY_RUN

\* ensure_usd_liquidity_for(pid, min_required - planned, ...), line 519.
\* _convert sends the amount as f"{amount:.2f}".
EnsureLiquidity ==
    /\ pc = "liquidity"
    /\ LET need_usd == min_required - planned
           shortfall == Shortfall(need_usd, venueUsd)
           to_convert == ToConvert(venueUsdc, shortfall)
       IN  IF need_usd <= 0 \/ QuoteOf(pid) # "USD" \/ shortfall <= 0 \/ venueUsdc <= 0
           THEN UNCHANGED <<venueUsd, venueUsdc, logs, converts>>
           ELSE \E ok \in BOOLEAN, tieUp \in BOOLEAN :
                  /\ IF ~ConvertIsSent
                     THEN /\ ok = TRUE
                          /\ UNCHANGED <<venueUsd, venueUsdc, converts>>
                     ELSE /\ ConvertAtVenue(Fmt2(to_convert, tieUp), ok)
                          /\ converts' = Append(converts,
                                 [product |-> pid,
                                  amount |-> Fmt2(to_convert, tieUp)])
                  /\ logs' = Append(logs, LogRow("CRYPTO-CONVERT", pid, ConvertStatus(ok)))
    /\ movedSinceRead' = IF venueUsd' # venueUsd THEN "convert" ELSE movedSinceRead
    /\ pc' = "refresh"
    /\ lastExc' = "none"
    /\ UNCHANGED <<cfgVars, idx, orders, localVars, storeVars, polled,
                   budgetVars, sweepVars,
                   buyCalls>>

\* usd_usdc_available raises inside ensure_usd_liquidity_for (line 379).
EnsureLiquidityFails ==
    /\ pc = "liquidity"
    /\ QuoteOf(pid) = "USD"
    /\ \E kind \in ExcKinds : Caught(kind)
    /\ UNCHANGED <<cfgVars, venueVars, storeVars, polled, budgetVars,
                   sweepVars, movedSinceRead,
                   callVars>>

\* Mutant of Refresh: the balances are not read again, the notional is
\* re-planned from the budget as it stands.
Refresh_KeepsSnapshot ==
    /\ pc = "refresh"
    /\ lastExc' = "none"
    /\ planned' = PlannedOf(remaining_usd)
    /\ pc' = "check"
    /\ UNCHANGED <<cfgVars, idx, venueVars, rules, min_required, tries, fills,
                   fill_usd, venueFill, logs, storeVars, polled, budgetVars,
                   sweepVars, movedSinceRead,
                   callVars>>

\* Lines 521-523: the balances are read again and the notional re-planned.
Refresh ==
    /\ pc = "refresh"
    /\ lastExc' = "none"
    /\ BalancesRead
    /\ planned' = PlannedOf(venueUsd)
    /\ spentSince' = 0
    /\ pc' = "check"
    /\ UNCHANGED <<cfgVars, idx, venueVars, rules, min_required, tries, fills,
                   fill_usd, venueFill, logs, storeVars, polled, budget0,
                   spentAll, sweepVars,
                   callVars>>

\* usd_usdc_available raises at line 521.
RefreshFails ==
    /\ pc = "refresh"
    /\ \E kind \in ExcKinds : Caught(kind)
    /\ UNCHANGED <<cfgVars, venueVars, storeVars, polled, budgetVars,
                   sweepVars, movedSinceRead,
                   callVars>>

\* Lines 526-530: below the minimum the instrument is skipped.
Check ==
    /\ pc = "check"
    /\ lastExc' = "none"
    /\ IF planned < min_required
       THEN /\ logs' = Append(logs, LogRow("CRYPTO-BUY-SKIP", pid, "SKIPPED"))
            /\ Advance
       ELSE /\ pc' = "buy"
            /\ UNCHANGED <<logs, idx, localVars>>
    /\ UNCHANGED <<cfgVars, venueVars, storeVars, polled, budgetVars,
                   sweepVars, movedSinceRead,
                   callVars>>

\* place_buy: usd = max(min_quote, quantize_down(usd, quote_inc)), sent as
\* quote_size=f"{usd:.2f}".
QuoteSize(usd, r, tieUp) == Fmt2(Max(r.min_quote, quantize_down(usd, r.quote_inc)), tieUp)

\* What the venue makes of an accepted market buy of quote_size: no fill
\* (yet), a fill record that carries a size but no value, or a fill of the
\* whole quote_size with a fee, paid from the USD balance.
VenueFills(quote_size) ==
    {NoVenueFill, [base_qty |-> 1, quote_value |-> 0, fee |-> 0]}
    \cup {[base_qty |-> 1, quote_value |-> quote_size, fee |-> f] :
              f \in {g \in FeeChoices : quote_size + g <= venueUsd}}

\* Line 533, place_buy(pid, planned).  The venue's rules for the product
\* are the ones main read (the same min_quote), now with the quote_inc.
PlaceBuy ==
    /\ pc = "buy"
    /\ lastExc' = "none"
    /\ IF DRY_RUN
       THEN UNCHANGED <<venueVars, rules, venueFill, movedSinceRead, buyCalls>>
       ELSE \E inc \in QuoteIncChoices, tieUp \in BOOLEAN :
              LET r == [rules EXCEPT !.quote_inc = inc]
                  quote_size == QuoteSize(planned, r, tieUp)
              IN  /\ rules' = r
                  /\ orders' = Append(orders,
                        [product |-> pid, quote_size |-> quote_size])
                  /\ buyCalls' = Append(buyCalls, pid)
                  /\ \E vf \in VenueFills(quote_size) :
                       /\ venueFill' = vf
                       /\ venueUsd' = venueUsd - (vf.quote_value + vf.fee)
                       /\ movedSinceRead' = IF vf.quote_value + vf.fee > 0
                                            THEN "fill" ELSE movedSinceRead
                  /\ UNCHANGED venueUsdc
    /\ tries' = 0
    /\ pc' = "poll"
    /\ UNCHANGED <<cfgVars, idx, planned, min_required, fills, fill_usd, logs,
                   storeVars, polled, budgetVars,
                   sweepVars,
                   converts>>

\* fetch_product_rules raises inside place_buy (market_order_buy is not
\* called), or market_order_buy is called and raises; the venue has taken
\* no order.
PlaceBuyFails ==
    /\ pc = "buy"
    /\ ~DRY_RUN
    /\ \E kind \in ExcKinds : Caught(kind)
    /\ \E called \in BOOLEAN :
         buyCalls' = IF called THEN Append(buyCalls, pid) ELSE buyCalls
    /\ UNCHANGED <<cfgVars, venueVars, storeVars, polled, budgetVars,
                   sweepVars, movedSinceRead,
                   converts>>

\* One poll's aggregate over the fills the venue returns (lines 431-446):
\* base_qty and fill_usd summed, the fee added to the quote spent.
PollAggregate(vf) ==
    IF vf.base_qty > 0 /\ vf.quote_value > 0
    THEN [base_qty |-> vf.base_qty, fill_usd |-> Max(0, vf.quote_value + vf.fee)]
    ELSE NoFills

PollSucceeded(agg) == agg.base_qty > 0 /\ agg.fill_usd > 0

\* Mutant of PollMayTry: the loop makes one attempt more.
PollMayTry_OneMore(t) == t <= POLL_TRIES

\* for _ in range(POLL_TRIES): another attempt is made after t attempts.
PollMayTry(t) == t < POLL_TRIES

\* Line 534, poll_fills_sum(oid): one attempt per step.  An attempt returns
\* the order's fills when base_qty and fill_usd are both positive; it
\* counts and the loop goes on when get_fills returns nothing usable.
Poll ==
    /\ pc = "poll"
    /\ \/ /\ DRY_RUN
          /\ fills' = NoFills
          /\ pc' = "settle"
          /\ lastExc' = "none"
          /\ UNCHANGED tries
       \/ /\ ~DRY_RUN
          /\ PollMayTry(tries)
          /\ PollSucceeded(PollAggregate(venueFill))
          /\ fills' = PollAggregate(venueFill)
          /\ pc' = "settle"
          /\ lastExc' = "none"
          /\ UNCHANGED tries
       \/ /\ ~DRY_RUN
          /\ PollMayTry(tries)
          /\ tries' = tries + 1
          /\ lastExc' = "none"
          /\ UNCHANGED <<fills, pc>>
       \/ /\ ~DRY_RUN
          /\ ~PollMayTry(tries)
          /\ fills' = NoFills
          /\ pc' = "settle"
          /\ lastExc' = "none"
          /\ UNCHANGED tries
    /\ UNCHANGED <<cfgVars, idx, venueVars, planned, rules, min_required,
                   fill_usd, venueFill, logs, storeVars, polled, budgetVars,
                   sweepVars, movedSinceRead,
                   callVars>>

\* Mutant of PollRaises: no except clause in poll_fills_sum, the exception
\* reaches the handler of the instrument loop.
PollRaises_Propagates ==
    /\ pc = "poll"
    /\ ~DRY_RUN
    /\ PollMayTry(tries)
    /\ Caught("other")
    /\ UNCHANGED <<cfgVars, venueVars, storeVars, polled, budgetVars,
                   sweepVars, movedSinceRead,
                   callVars>>

\* get_fills, or the aggregation of what it returned, raises during an
\* attempt: except Exception: pass (lines 447-448), the attempt counts and
\* the loop goes on.
PollRaises ==
    /\ pc = "poll"
    /\ ~DRY_RUN
    /\ PollMayTry(tries)
    /\ tries' = tries + 1
    /\ lastExc' = "swallowed"
    /\ UNCHANGED <<cfgVars, idx, pc, venueVars, planned, rules, min_required,
                   fills, fill_usd, venueFill, logs, storeVars, polled,
                   budgetVars,
                   sweepVars, movedSinceRead,
                   callVars>>

\* fill_usd = fills["fill_usd"] if fills["fill_usd"] > 0 else planned
FillUsd(f, plan) == IF f.fill_usd > 0 THEN f.fill_usd ELSE plan

\* fill_usd or planned
Spend(fu, plan) == IF fu # 0 THEN fu ELSE plan

\* Mutant of NextRemaining: the spend is added instead of subtracted.
NextRemaining_SignSlip(rem, spend) == Max(0, rem + spend)

\* Mutant of NextRemaining: the floor at zero is left out.
NextRemaining_NoFloor(rem, spend) == rem - spend

\* remaining_usd = max(0.0, remaining_usd - (fill_usd or planned))
NextRemaining(rem, spend) == Max(0, rem - spend)

\* Mutant of ShouldUpsert: the quantity test is off by one.
ShouldUpsert_QtyOffByOne(base_qty, fu) ==
    ENABLE_COST_SHEET /\ ~DRY_RUN /\ base_qty > 1 /\ fu > 0

\* Mutant of ShouldUpsert: the quantity test is left out.
ShouldUpsert_NoQtyCheck(base_qty, fu) ==
    ENABLE_COST_SHEET /\ ~DRY_RUN /\ fu > 0

\* if ENABLE_COST_SHEET and (not DRY_RUN) and base_qty > 0 and fill_usd > 0
ShouldUpsert(base_qty, fu) ==
    ENABLE_COST_SHEET /\ ~DRY_RUN /\ base_qty > 0 /\ fu > 0

\* What the order is known to have cost when it is settled: the quote value
\* the poll confirmed, or the planned notional when it confirmed none.
KnownSpend == IF PollSucceeded(fills) THEN fills.fill_usd ELSE planned

BuyStatus == IF DRY_RUN THEN "dry-run" ELSE "submitted"

\* Lines 535-550: the budget is reduced and the CRYPTO-BUY row is logged.
Settle ==
    /\ pc = "settle"
    /\ lastExc' = "none"
    /\ LET fu == FillUsd(fills, planned)
           spend == Spend(fu, planned)
       IN  /\ remaining_usd' = NextRemaining(remaining_usd, spend)
           /\ spentSince' = spentSince + KnownSpend
           /\ spentAll' = spentAll + KnownSpend
           /\ polled' = Append(polled,
                  [product |-> pid, confirmed |-> PollSucceeded(fills)])
           /\ logs' = Append(logs, LogRow("CRYPTO-BUY", pid, BuyStatus))
           /\ IF ShouldUpsert(fills.base_qty, fu)
              THEN /\ pc' = "upsert"
                   /\ fill_usd' = fu
                   /\ UNCHANGED <<idx, planned, rules, min_required, tries,
                                  fills, venueFill>>
              ELSE Advance
    /\ UNCHANGED <<cfgVars, venueVars, storeVars, budgetBase, budget0,
                   sweepVars, movedSinceRead,
                   callVars>>

\* The row of the cost tab that upsert_cost finds for product: the first
\* one whose Product cell matches (0 when there is none).
FindRow(ws, product) ==
    IF \E r \in 1..Len(ws) : ws[r].product = product
    THEN CHOOSE r \in 1..Len(ws) :
           /\ ws[r].product = product
           /\ \A q \in 1..(r - 1) : ws[q].product # product
    ELSE 0

\* Mutant of upsert_cost: on an update the average is the one of the
\* purchase alone.
upsert_cost_AvgOfPurchase(ws, product, add_qty, add_cost, tieUp) ==
    LET r == FindRow(ws, product)
    IN  IF r > 0
        THEN [ws EXCEPT ![r] = [product |-> product,
                                qty |-> ws[r].qty + add_qty,
                                cost |-> Fmt2(ws[r].cost + add_cost, tieUp),
                                avg |-> Fmt6(add_cost, add_qty, tieUp)]]
        ELSE Append(ws, [product |-> product, qty |-> add_qty,
                         cost |-> Fmt2(add_cost, tieUp),
                         avg |-> Fmt6(add_cost, add_qty, tieUp)])

\* upsert_cost(ws, product, add_qty, add_cost): Qty is written with twelve
\* decimals, DollarCost with two and AvgCostUSD with six; Qty and
\* DollarCost are parsed back on the next call.  avg is computed from the
\* cost before it is rounded to cents.
upsert_cost(ws, product, add_qty, add_cost, tieUp) ==
    LET r == FindRow(ws, product)
    IN  IF r > 0
        THEN [ws EXCEPT ![r] = [product |-> product,
                                qty |-> ws[r].qty + add_qty,
                                cost |-> Fmt2(ws[r].cost + add_cost, tieUp),
                                avg |-> Fmt6(ws[r].cost + add_cost,
                                             ws[r].qty + add_qty, tieUp)]]
        ELSE Append(ws, [product |-> product, qty |-> add_qty,
                         cost |-> Fmt2(add_cost, tieUp),
                         avg |-> Fmt6(add_cost, add_qty, tieUp)])

\* Line 551: the ledger row is written (one update or one append).
Upsert ==
    /\ pc = "upsert"
    /\ lastExc' = "none"
    /\ \E tieUp \in BOOLEAN :
         ws_cost' = IF ENABLE_COST_SHEET
                    THEN upsert_cost(ws_cost, pid, fills.base_qty, fill_usd, tieUp)
                    ELSE ws_cost
    /\ ledgerOps' = IF ENABLE_COST_SHEET
                    THEN Append(ledgerOps,
                           [product |-> pid,
                            kind |-> IF FindRow(ws_cost, pid) > 0
                                     THEN "update" ELSE "append"])
                    ELSE ledgerOps
    /\ Advance
    /\ UNCHANGED <<cfgVars, venueVars, logs, ws_log, polled, budgetVars,
                   sweepVars, movedSinceRead,
                   callVars>>

\* A store call of upsert_cost raises: nothing is written, and the loop's
\* handler logs the exception.
UpsertFails ==
    /\ pc = "upsert"
    /\ \E kind \in ExcKinds : Caught(kind)
    /\ UNCHANGED <<cfgVars, venueVars, storeVars, polled, budgetVars,
                   sweepVars, movedSinceRead,
                   callVars>>

(***************************************************************************)
(* main(): after the loop (src/main.py:560-562).                           *)
(***************************************************************************)
\* Mutant of append_logs: the first row of the batch is lost.
append_logs_DropsFirst(ws, rows) == ws \o Tail(rows)

\* append_logs(ws, rows): the rows follow the ones the tab holds.
append_logs(ws, rows) == ws \o rows

Flush ==
    /\ pc = "flush"
    /\ lastExc' = "none"
    /\ ws_log' = IF logs # << >> THEN append_logs(ws_log, logs) ELSE ws_log
    /\ pc' = "done"
    /\ UNCHANGED <<cfgVars, idx, venueVars, localVars, logs, ws_cost,
                   ledgerOps, polled, budgetVars,
                   sweepVars, movedSinceRead,
                   callVars>>

\* ws.append_rows raises: the exception leaves main (lines 565-569).
FlushFails ==
    /\ pc = "flush"
    /\ lastExc' = "none"
    /\ pc' = "fatal"
    /\ UNCHANGED <<cfgVars, idx, venueVars, localVars, logs, storeVars,
                   polled, budgetVars,
                   sweepVars, movedSinceRead,
                   callVars>>

Next ==
    \/ Start
    \/ StartFails
    \/ Plan
    \/ PlanFails
    \/ EnsureLiquidity
    \/ EnsureLiquidityFails
    \/ Refresh
    \/ RefreshFails
    \/ Check
    \/ PlaceBuy
    \/ PlaceBuyFails
    \/ Poll
    \/ PollRaises
    \/ Settle
    \/ Upsert
    \/ UpsertFails
    \/ Flush
    \/ FlushFails

Spec == Init /\ [][Next]_vars

\* The runs with the sweep on.
SweepNext ==
    \/ SweepStart
    \/ SweepListFails
    \/ SweepSkipSelf
    \/ SweepAccountsFail
    \/ SweepAccount
    \/ SweepDone
    \/ StartFails
    \/ Plan
    \/ PlanFails
    \/ EnsureLiquidity
    \/ EnsureLiquidityFails
    \/ Refresh
    \/ RefreshFails
    \/ Check
    \/ PlaceBuy
    \/ PlaceBuyFails
    \/ Poll
    \/ PollRaises
    \/ Settle
    \/ Upsert
    \/ UpsertFails
    \/ Flush
    \/ FlushFails

SweepSpec == SweepInit /\ [][SweepNext]_vars

\* Every planned notional is an exact number of units.
PlannedExact == (remaining_usd * PCT_PER_TRADE) % 100 = 0

(***************************************************************************)
(* Properties.                                                             *)
(***************************************************************************)
Instruments == 1..Len(products)

\* Instrument i has reached its terminal outcome: the loop has left it.
Finished(i) == i < idx

OutcomeActions == {"CRYPTO-BUY-SKIP", "CRYPTO-BUY", "CRYPTO-BUY-ERROR"}

OutcomeRows(p) ==
    {k \in 1..Len(logs) : logs[k].product = p /\ logs[k].action \in OutcomeActions}

ErrorRows(p) ==
    {k \in 1..Len(logs) : logs[k].product = p /\ logs[k].action = "CRYPTO-BUY-ERROR"}

LedgerOpsFor(p) == {k \in 1..Len(ledgerOps) : ledgerOps[k].product = p}

OrdersFor(p) == {k \in 1..Len(orders) : orders[k].product = p}

\* poll_fills_sum returned base quantity > 0 and quote value > 0 for p's order.
Confirmed(p) == \E k \in 1..Len(polled) : polled[k].product = p /\ polled[k].confirmed

\* C1 as stated: every Confirmed outcome has exactly one ledger mutation
\* for its order, whatever the configuration and the store do.
C1_ExactlyOneMutationPerConfirmed ==
    \A i \in Instruments :
        (Finished(i) /\ Confirmed(products[i]))
            => Cardinality(LedgerOpsFor(products[i])) = 1

\* C1 amended: no order's ledger row is ever mutated twice; with the cost
\* sheet enabled a Confirmed outcome has exactly one mutation (its row is in
\* the cost tab), or none when the store call raised, and then the
\* instrument has an ERROR row; with the cost sheet disabled a Confirmed
\* outcome has no mutation.
C1_MutationPerConfirmedWhenEnabled ==
    \A i \in Instruments :
        LET p == products[i]
            n == Cardinality(LedgerOpsFor(p))
        IN  /\ n <= 1
            /\ (Finished(i) /\ Confirmed(p)) =>
                 IF ENABLE_COST_SHEET /\ ~DRY_RUN
                 THEN \/ n = 1 /\ FindRow(ws_cost, p) > 0
                      \/ n = 0 /\ ErrorRows(p) # {}
                 ELSE n = 0

C1_Witness ==
    \E i \in Instruments :
        /\ Finished(i)
        /\ Confirmed(products[i])
        /\ Cardinality(LedgerOpsFor(products[i])) = 1
        /\ ErrorRows(products[i]) = {}

\* C2: when the poll of an order returns unconfirmed (all POLL_TRIES
\* attempts used), the step that settles it leaves the cost tab as it is,
\* does not go on to upsert_cost, and takes the planned notional off the
\* budget.
C2_UnconfirmedNeverTouchesLedger ==
    [][(pc = "settle" /\ ~DRY_RUN /\ ~PollSucceeded(fills))
          => /\ ws_cost' = ws_cost
             /\ ledgerOps' = ledgerOps
             /\ pc' # "upsert"
             /\ idx' = idx + 1
             /\ remaining_usd' = Max(0, remaining_usd - planned)]_vars

C2_Witness ==
    /\ ~DRY_RUN
    /\ ENABLE_COST_SHEET
    /\ \E k \in 1..Len(polled) :
         /\ ~polled[k].confirmed
         /\ LedgerOpsFor(polled[k].product) = {}
         /\ OrdersFor(polled[k].product) # {}

\* C3: an instrument whose planned notional, as it stands after the Convert
\* attempt, is below max(MIN_NOTIONAL, venue minimum quote) is skipped: a
\* SKIPPED row, no market buy, no ledger change, and the loop moves on.
C3_BelowMinimumIsSkipped ==
    [][(pc = "check" /\ planned < Max(MIN_NOTIONAL, rules.min_quote))
          => /\ logs' = Append(logs, LogRow("CRYPTO-BUY-SKIP", pid, "SKIPPED"))
             /\ orders' = orders
             /\ ws_cost' = ws_cost
             /\ ledgerOps' = ledgerOps
             /\ idx' = idx + 1]_vars

C3_Witness ==
    \E k \in 1..Len(logs) :
        /\ logs[k].status = "SKIPPED"
        /\ OrdersFor(logs[k].product) = {}
        /\ LedgerOpsFor(logs[k].product) = {}

\* C4 as stated: once set, remaining_usd never increases.
C4_RemainingNeverIncreases ==
    [][pc # "start" => remaining_usd' <= remaining_usd]_vars

\* C4 amended: remaining_usd never increases except in the balance refresh
\* that follows a Convert attempt (lines 521-522), which sets it to the USD
\* balance just read.
C4_RemainingNeverIncreasesOutsideRefresh ==
    [][(pc # "start" /\ pc # "refresh") => remaining_usd' <= remaining_usd]_vars

C4_Witness ==
    /\ polled # << >>
    /\ remaining_usd < budgetBase

\* C5 as stated: remaining_usd is the initial budget minus the spend of the
\* instruments bought so far, and is never negative.
C5_RemainingIsInitialMinusSpend ==
    pc # "start" =>
        /\ remaining_usd = budget0 - spentAll
        /\ remaining_usd >= 0

\* C5 amended: remaining_usd is never negative, and equals the USD balance
\* last read into it (after the sweep, or in the refresh after a Convert
\* attempt) minus the spend of the instruments bought since that read,
\* floored at zero.
C5_RemainingIsLastReadMinusSpendFloored ==
    pc # "start" =>
        /\ remaining_usd = Max(0, budgetBase - spentSince)
        /\ remaining_usd >= 0

C5_Witness ==
    /\ polled # << >>
    /\ spentSince > budgetBase
    /\ remaining_usd = 0

\* The order place_buy has just sent for the current instrument.
SentOrder == orders[Len(orders)]
JustSent == pc = "poll" /\ ~DRY_RUN

\* C6: the quote_size sent to the venue is at most the planned notional.
C6_QuoteSizeAtMostPlanned ==
    JustSent => SentOrder.quote_size <= planned

\* C7: the quote_size sent to the venue is an integer multiple of the
\* product's quote increment.
C7_QuoteSizeMultipleOfIncrement ==
    JustSent => SentOrder.quote_size % rules.quote_inc = 0

\* C8: the quote_size sent to the venue is at least
\* max(MIN_NOTIONAL, venue minimum quote).
C8_QuoteSizeAtLeastMinimum ==
    JustSent => SentOrder.quote_size >= Max(MIN_NOTIONAL, rules.min_quote)

\* C9: every instrument the loop has left has exactly one outcome row, and
\* no instrument ever has two.
C9_OneOutcomeRowPerInstrument ==
    \A i \in Instruments :
        /\ Cardinality(OutcomeRows(products[i])) <= 1
        /\ Finished(i) => Cardinality(OutcomeRows(products[i])) = 1

C11_TransientVenueErrorIsRetried ==
    [][(pc \in {"plan", "liquidity", "refresh", "buy"} /\ lastExc' = "transient")
          => /\ logs' = logs
             /\ idx' = idx
             /\ pc' = pc]_vars

\* C12: an exception raised while an instrument is processed ends that
\* instrument alone: its ERROR row belongs to an instrument the loop has
\* left, the run fails only before the loop (no row yet) or after the last
\* instrument, and every instrument the loop has left has an outcome row.
C12_ExceptionNeverAbortsRun ==
    /\ \A i \in Instruments :
         /\ ErrorRows(products[i]) # {} => Finished(i)
         /\ Finished(i) => OutcomeRows(products[i]) # {}
    /\ pc = "fatal" => \/ idx = 1 /\ logs = << >>
                       \/ idx = Len(products) + 1
    /\ pc \in {"flush", "done"} => idx = Len(products) + 1

C12_Witness ==
    \E i, j \in Instruments :
        /\ i < j
        /\ ErrorRows(products[i]) # {}
        /\ Finished(j)
        /\ ErrorRows(products[j]) = {}
        /\ OutcomeRows(products[j]) # {}

\* C13 as stated: an exception raised by get_fills, or while the fills are
\* aggregated, puts the instrument in Error: the step appends its
\* CRYPTO-BUY-ERROR row.
C13_ConfirmFailureIsError ==
    [][(pc = "poll" /\ lastExc' = "swallowed")
          => logs' = Append(logs, LogRow("CRYPTO-BUY-ERROR", pid, "ERROR"))]_vars

\* C13 amended: an exception raised by get_fills, or while the fills are
\* aggregated, is swallowed inside poll_fills_sum: it uses up one of the
\* POLL_TRIES attempts, writes no row and keeps the loop at the instrument;
\* no step of the poll or of the settlement that follows writes an ERROR
\* row, the row written is the CRYPTO-BUY row.
C13_ConfirmFailureIsSwallowed ==
    [][(pc \in {"poll", "settle"})
          => /\ \/ logs' = logs
                \/ /\ pc = "settle"
                   /\ Len(logs') = Len(logs) + 1
                   /\ logs'[Len(logs')].action = "CRYPTO-BUY"
                   /\ logs'[Len(logs')].product = pid
             /\ lastExc' = "swallowed"
                  => /\ pc' = "poll"
                     /\ idx' = idx
                     /\ tries' = tries + 1]_vars

C13_Witness ==
    /\ pc = "poll"
    /\ lastExc = "swallowed"
    /\ tries = POLL_TRIES
    /\ ErrorRows(pid) = {}

\* The poll of p's order used up its attempts without a confirmation.
Unconfirmed(p) == \E k \in 1..Len(polled) : polled[k].product = p /\ ~polled[k].confirmed

\* C14: the CRYPTO-BUY row of an order whose polling was exhausted carries
\* a status that differs from the status of the row of a confirmed order.
C14_UnconfirmedStatusDiffers ==
    ~DRY_RUN =>
        \A j, k \in 1..Len(logs) :
            (/\ logs[j].action = "CRYPTO-BUY"
             /\ logs[k].action = "CRYPTO-BUY"
             /\ Unconfirmed(logs[j].product)
             /\ Confirmed(logs[k].product))
                => logs[j].status # logs[k].status

\* C15: poll_fills_sum makes at most POLL_TRIES attempts, and every attempt
\* that does not return is counted, so the poll ends; it returns a positive
\* result only from an attempt, within the budget, in which the venue's
\* fills have a positive size and a positive quote value, and otherwise
\* returns zeros once POLL_TRIES attempts have been made (at once in a dry
\* run); the loop then settles the instrument.
C15_PollBoundedAndExact ==
    [][pc = "poll"
          => /\ pc' \in {"poll", "settle"}
             /\ tries' <= POLL_TRIES
             /\ pc' = "poll" => tries' = tries + 1
             /\ (pc' = "settle" /\ PollSucceeded(fills'))
                  => /\ venueFill.base_qty > 0
                     /\ venueFill.quote_value > 0
                     /\ tries < POLL_TRIES
             /\ (pc' = "settle" /\ ~PollSucceeded(fills'))
                  => /\ fills' = NoFills
                     /\ DRY_RUN \/ tries = POLL_TRIES]_vars

C15_Witness ==
    /\ pc = "settle"
    /\ ~DRY_RUN
    /\ tries = POLL_TRIES
    /\ fills = NoFills
    /\ venueFill.base_qty > 0

\* C16: no move_portfolio_funds call sent by the sweep has its target
\* portfolio equal to its source portfolio.
C16_SweepNeverTargetsSource ==
    \A k \in 1..Len(moves) : moves[k].source # moves[k].target

Abs(x) == IF x >= 0 THEN x ELSE -x

\* C17 as stated: the amount a Convert moves from USDC to USD is exactly
\* min(shortfall, USDC balance), with shortfall = max(0, need_usd - USD
\* balance) as ensure_usd_liquidity_for computes it; nothing is converted
\* or logged when the shortfall or the USDC balance is zero; the balances
\* are read again before the notional is re-planned.
C17_ConvertsExactlyMinShortfallUsdc ==
    [][/\ (pc = "liquidity" /\ pc' = "refresh")
           => LET shortfall == Max(0, (min_required - planned) - venueUsd)
              IN  /\ venueUsd' # venueUsd
                       => /\ venueUsd' - venueUsd = Min(shortfall, venueUsdc)
                          /\ venueUsdc - venueUsdc' = Min(shortfall, venueUsdc)
                  /\ (shortfall = 0 \/ venueUsdc = 0)
                       => /\ logs' = logs
                          /\ venueUsd' = venueUsd
                          /\ venueUsdc' = venueUsdc
       /\ (pc = "refresh" /\ pc' = "check")
           => /\ remaining_usd' = venueUsd
              /\ planned' = PlannedOf(venueUsd)]_vars

\* C17 amended: the amount a Convert moves is min(shortfall, USDC balance)
\* rounded to the nearest cent (it is sent as a two-decimal string), with
\* shortfall = max(0, (min_required - planned) - USD balance); nothing is
\* converted or logged when that shortfall or the USDC balance is zero,
\* or the product is not quoted in USD; in a dry run nothing is converted;
\* the balances are read again before the notional is re-planned.
C17_ConvertsMinShortfallUsdcInCents ==
    [][/\ (pc = "liquidity" /\ pc' = "refresh")
           => LET shortfall == Max(0, (min_required - planned) - venueUsd)
                  m == Min(shortfall, venueUsdc)
              IN  /\ venueUsd' - venueUsd = venueUsdc - venueUsdc'
                  /\ venueUsd' # venueUsd
                       => /\ venueUsd' - venueUsd \in {Fmt2(m, TRUE), Fmt2(m, FALSE)}
                          /\ 2 * Abs((venueUsd' - venueUsd) - m) <= Cent
                  /\ (shortfall = 0 \/ venueUsdc = 0 \/ QuoteOf(pid) # "USD")
                       => /\ logs' = logs
                          /\ venueUsd' = venueUsd
                  /\ DRY_RUN => venueUsd' = venueUsd
       /\ (pc = "refresh" /\ pc' = "check")
           => /\ remaining_usd' = venueUsd
              /\ planned' = PlannedOf(venueUsd)]_vars

\* A Convert has landed, of an amount that is not the exact shortfall.
C17_Witness ==
    /\ pc = "refresh"
    /\ movedSinceRead = "convert"
    /\ venueUsd - remaining_usd # Max(0, (min_required - planned) - remaining_usd)

\* C18 as stated: the budget an instrument is planned from is never a
\* balance snapshot taken before the most recent action that moved funds
\* (a sweep move, a convert, an order fill).
C18_BudgetNeverFromStaleSnapshot ==
    pc = "plan" => movedSinceRead = "none"

\* The balance read that follows the Convert attempt of an earlier
\* instrument raised: that instrument has a CRYPTO-CONVERT row and an
\* ERROR row.
RereadFailed ==
    \E i \in Instruments :
        /\ Finished(i)
        /\ ErrorRows(products[i]) # {}
        /\ \E k \in 1..Len(logs) :
             logs[k].action = "CRYPTO-CONVERT" /\ logs[k].product = products[i]

\* C18 amended: where the budget or the notional planned from it is used
\* (the plan, the minimum check, the order), no sweep move has happened
\* since the balance was last read, and no convert unless the read that
\* follows it raised and ended that instrument in Error; an order fill may
\* have: after a fill the balance is not read again, the budget is the last
\* balance read minus what the orders since are known to have cost.
C18_RereadAfterSweepAndConvertOnly ==
    /\ pc \in {"plan", "check", "buy"}
         => \/ movedSinceRead \in {"none", "fill"}
            \/ movedSinceRead = "convert" /\ RereadFailed
    /\ pc = "plan" => remaining_usd = Max(0, budgetBase - spentSince)

C18_Witness ==
    /\ pc = "plan"
    /\ movedSinceRead = "fill"
    /\ \E k \in 1..Len(moves) : moves[k].source # moves[k].target

\* The millionths of a dollar in a cost.
Micro(cost) == (cost * 1000) \div Mill

\* The row's average is its cost over its quantity, up to the rounding of
\* the two cells: half a cent in the cost, half a millionth in the average.
AvgMatches(row) ==
    row.qty > 0 =>
        2 * Abs(row.avg * row.qty - Micro(row.cost)) <= 10000 + row.qty

\* C19: in every row of the cost tab with a quantity above zero the average
\* cost is the dollar cost over the quantity, within the rounding of the
\* cells, and no step lowers the quantity or the dollar cost of a row or
\* removes a row.
C19_AverageIsCostOverQtyAndMonotone ==
    [][/\ \A r \in 1..Len(ws_cost') : AvgMatches(ws_cost'[r])
       /\ Len(ws_cost') >= Len(ws_cost)
       /\ \A r \in 1..Len(ws_cost) :
            /\ ws_cost'[r].product = ws_cost[r].product
            /\ ws_cost'[r].qty >= ws_cost[r].qty
            /\ ws_cost'[r].cost >= ws_cost[r].cost]_vars

\* A row was updated, and its average is a rounded quotient.
C19_Witness ==
    /\ \E k \in 1..Len(ledgerOps) : ledgerOps[k].kind = "update"
    /\ \E k \in 1..Len(ledgerOps) : ledgerOps[k].kind = "append"
    /\ \E r \in 1..Len(ws_cost) :
         /\ ws_cost[r].qty = 3
         /\ ws_cost[r].avg * ws_cost[r].qty # Micro(ws_cost[r].cost)

\* C20: when the Convert is enabled, the planned notional is below the
\* minimum, the USDC balance covers the amount to convert and the convert
\* lands in full, the notional re-planned from the balance read next is at
\* least the minimum.
C20_ConvertLiftsPlannedToMinimum ==
    [][(/\ pc = "liquidity"
        /\ AUTO_CONVERT
        /\ planned < min_required
        /\ venueUsdc >= Max(0, (min_required - planned) - venueUsd)
        /\ venueUsd' > venueUsd)
          => PlannedOf(venueUsd') >= min_required]_vars

\* Some row of a log has the given action and status.
HasRow(rows, action, status) ==
    \E k \in 1..Len(rows) : rows[k].action = action /\ rows[k].status = status

FirstAt(raw, p) ==
    CHOOSE i \in 1..Len(raw) :
        /\ NormCell(raw[i]) = p
        /\ \A j \in 1..(i - 1) : NormCell(raw[j]) # p

\* read_screener returns every id of the screener once, trimmed and
\* upper-cased, in the order of first appearance.
ScreenerInFirstAppearanceOrder ==
    \A raw \in RawScreens :
        LET out == read_screener(raw)
        IN  /\ {out[i] : i \in 1..Len(out)}
                 = {NormCell(raw[i]) : i \in 1..Len(raw)} \ {""}
            /\ \A i, j \in 1..Len(out) :
                 i < j => FirstAt(raw, out[i]) < FirstAt(raw, out[j])

\* C22: the list main iterates holds each id once, in the order of first
\* appearance in the screener; market_order_buy is called at most once per
\* id, accepted or not, and the calls follow the order of the list.
C22_OneBuyPerInstrumentInOrder ==
    /\ ScreenerInFirstAppearanceOrder
    /\ \A i, j \in Instruments : i # j => products[i] # products[j]
    /\ \A a \in 1..Len(buyCalls) :
         \E i \in Instruments : i <= idx /\ products[i] = buyCalls[a]
    /\ \A a, b \in 1..Len(buyCalls) :
         a < b => \E i, j \in Instruments :
                     /\ i < j
                     /\ products[i] = buyCalls[a]
                     /\ products[j] = buyCalls[b]

\* Two instruments were submitted, one submission failed and was not sent
\* again.
C22_Witness ==
    /\ pc = "done"
    /\ Len(buyCalls) = 2
    /\ Len(orders) = 1
    /\ orders[1].product = buyCalls[2]

====
